---- MODULE Spec2Model ----
(***************************************************************************)
(* Model of the multi-platform track resolution engine of                  *)
(* Tracklist-Scraper: the three platform crawlers (crawlers/youtube.py,    *)
(* crawlers/discogs.py, crawlers/bandcamp.py) and the SearchManager        *)
(* (search_manager.py) that runs them one after the other.                 *)
(*                                                                         *)
(* Text is a sequence of atoms.  An atom is one character of the input, or *)
(* a literal the source itself writes as a unit (a URL prefix, a path      *)
(* marker, a percent escape), so that equality of two texts is equality of *)
(* the sequences.  A confidence c is the integer c * One.                  *)
(***************************************************************************)
EXTENDS Integers, Sequences, FiniteSets, TLC

\* Python None where a text is expected (no text is this sequence)
None == <<"None">>

\* Python None where a platform name is expected
NoPlatform == "None"

\* Confidence 1.0; One is divisible by every word count the model reaches.
One == 2520

(***************************************************************************)
(* Characters                                                              *)
(***************************************************************************)
LowerLetters == {"a", "b", "c", "e", "i", "k", "m", "n", "o", "r", "t", "u", "w", "x"}
UpperLetters == {"A", "B", "M", "I", "X", "T", "U"}
Digits == {"1", "2"}
\* \w of the re module
WordChars == LowerLetters \cup UpperLetters \cup Digits \cup {"_"}
\* \s of the re module
SpaceChars == {" ", "\t"}
\* the punctuation every clean_query keeps: - ( ) [ ] & .
KeptPunct == {"-", "(", ")", "[", "]", "&", "."}

\* str.lower() on one character
LowerChar(c) ==
  CASE c = "A" -> "a"
    [] c = "B" -> "b"
    [] c = "M" -> "m"
    [] c = "I" -> "i"
    [] c = "X" -> "x"
    [] c = "T" -> "t"
    [] c = "U" -> "u"
    [] c = "TAG" -> "tag"
    [] OTHER -> c

\* str.lower()
Lower(s) == [k \in 1..Len(s) |-> LowerChar(s[k])]

\* s.startswith(p)
StartsWith(s, p) == Len(p) <= Len(s) /\ SubSeq(s, 1, Len(p)) = p

\* the text p occurs in s at position k
OccursAt(s, p, k) == k >= 1 /\ k + Len(p) - 1 <= Len(s) /\ SubSeq(s, k, k + Len(p) - 1) = p

\* p in s
Contains(s, p) == \E k \in 1..(Len(s) + 1) : OccursAt(s, p, k)

(***************************************************************************)
(* clean_query                                                             *)
(***************************************************************************)
\* re.sub(r'[^\w\s\-\(\)\[\]&\.]', ' ', s), with \' in the class when keepApos
SubDisallowed(s, keepApos) ==
  [k \in 1..Len(s) |->
     IF s[k] \in WordChars \cup SpaceChars \cup KeptPunct \/ (keepApos /\ s[k] = "'")
     THEN s[k] ELSE " "]

\* re.sub(r'\s+', ' ', s)
RECURSIVE CollapseSpaces(_)
CollapseSpaces(s) ==
  IF s = <<>> THEN <<>>
  ELSE IF Head(s) \in SpaceChars
       THEN IF Len(s) >= 2 /\ s[2] \in SpaceChars
            THEN CollapseSpaces(Tail(s))
            ELSE <<" ">> \o CollapseSpaces(Tail(s))
       ELSE <<Head(s)>> \o CollapseSpaces(Tail(s))

\* str.strip()
RECURSIVE LStrip(_)
LStrip(s) == IF s # <<>> /\ Head(s) \in SpaceChars THEN LStrip(Tail(s)) ELSE s

RECURSIVE RStrip(_)
RStrip(s) ==
  IF s # <<>> /\ s[Len(s)] \in SpaceChars THEN RStrip(SubSeq(s, 1, Len(s) - 1)) ELSE s

Strip(s) == RStrip(LStrip(s))

\* the two substitutions and the strip that all three clean_query share
CleanCommon(s, keepApos) == Strip(CollapseSpaces(SubDisallowed(s, keepApos)))

\* YouTubeCrawler.clean_query
YouTubeCleanQuery(query) == CleanCommon(query, TRUE)

\* DiscogsCrawler.clean_query
DiscogsCleanQuery(query) == CleanCommon(query, FALSE)

\* Position of the first ")" of s at or after position k, 0 when there is none
RECURSIVE FirstClose(_, _)
FirstClose(s, k) ==
  IF k > Len(s) THEN 0
  ELSE IF s[k] = ")" THEN k ELSE FirstClose(s, k + 1)

\* r'\(' '[^)]*' word '[^)]*' r'\)' matches s from the "(" at position j
\* (case-insensitively); the match then ends at the first ")" after j
ParenMatchAt(s, word, j) ==
  /\ j >= 1 /\ j <= Len(s) /\ s[j] = "("
  /\ FirstClose(s, j + 1) # 0
  /\ Contains(Lower(SubSeq(s, j + 1, FirstClose(s, j + 1) - 1)), word)

\* re.sub(r'\s*\([^)]*' + word + r'[^)]*\)', '', s, flags=re.IGNORECASE):
\* scanning from position k, the leftmost match starts at the first position
\* from which a run of whitespace leads to a matching "("
RECURSIVE RemoveParen(_, _, _)
RemoveParen(s, word, k) ==
  IF k > Len(s) THEN <<>>
  ELSE LET js == {j \in k..Len(s) :
                    /\ ParenMatchAt(s, word, j)
                    /\ \A m \in k..(j - 1) : s[m] \in SpaceChars}
       IN IF js # {}
          THEN LET j == CHOOSE x \in js : \A y \in js : x <= y
               IN RemoveParen(s, word, FirstClose(s, j + 1) + 1)
          ELSE <<s[k]>> \o RemoveParen(s, word, k + 1)

\* BandcampCrawler.clean_query
BandcampCleanQuery(query) ==
  RemoveParen(RemoveParen(CleanCommon(query, TRUE), <<"r", "e", "m", "i", "x">>, 1),
              <<"m", "i", "x">>, 1)

(***************************************************************************)
(* urllib.parse.quote                                                      *)
(***************************************************************************)
\* characters quote() leaves alone: letters, digits, "_.-~" and the default safe "/"
QuoteSafe == (WordChars \cup {".", "-", "~", "/"})

\* the percent escape of one character
QuoteChar(c) ==
  CASE c \in QuoteSafe -> c
    [] c = " " -> "%20"
    [] c = "\t" -> "%09"
    [] c = "(" -> "%28"
    [] c = ")" -> "%29"
    [] c = "[" -> "%5B"
    [] c = "]" -> "%5D"
    [] c = "&" -> "%26"
    [] c = "'" -> "%27"
    [] c = "!" -> "%21"
    [] OTHER -> "%3F"

\* urllib.parse.quote(s)
Quote(s) == [k \in 1..Len(s) |-> QuoteChar(s[k])]

(***************************************************************************)
(* Results and responses                                                   *)
(***************************************************************************)
\* a confidence on a scale of ten
ConfOutOfTen(tenths) == tenths * One

\* the confidences the source writes as literals
Conf(tenths) == (tenths * One) \div 10

\* the dict every search() returns; metadata keeps the keys the callers read
\* (absent keys are None, an absent total_results is -1)
Result(url, confidence, search_query, note, total, error) ==
  [url |-> url, confidence |-> confidence,
   metadata |-> [search_query |-> search_query, note |-> note, total_results |-> total],
   error |-> error]

\* ExceptResult with the bug of an except branch that keeps a default confidence
ExceptResultKeepsConfidence(query, e) == Result(None, Conf(5), query, None, -1, <<e>>)

\* the except branch: metadata carries the raw query, error is str(e)
ExceptResult(query, e) == Result(None, 0, query, None, -1, <<e>>)

\* an empty result set reported without an error
NoResultsFoundWithoutError(clean_query) ==
  Result(None, 0, clean_query, None, -1, None)

\* the else branch of "if results"
NoResultsFound(clean_query) ==
  Result(None, 0, clean_query, None, -1, <<"No results found">>)

\* what session.get() does: raise an exception whose str() is exc (raised is
\* TRUE), or return a response with a status and a body.  The body is a
\* sequence of the items the extractors look for; json is FALSE when
\* response.json() raises on it
Raised(exc) == [raised |-> TRUE, exc |-> exc, status |-> 0, json |-> FALSE, body |-> <<>>]
Answer(status, body) ==
  [raised |-> FALSE, exc |-> "", status |-> status, json |-> TRUE, body |-> body]
NotJson(status) ==
  [raised |-> FALSE, exc |-> "", status |-> status, json |-> FALSE, body |-> <<>>]

\* requests.Response.raise_for_status raises HTTPError for 4xx and 5xx only
RaisesForStatus(status) == status >= 400 /\ status < 600

\* Python truthiness of an optional text
Truthy(t) == t # None /\ t # <<>>

Min(a, b) == IF a <= b THEN a ELSE b

(***************************************************************************)
(* Confidence scorers                                                      *)
(***************************************************************************)
\* set(re.findall(r'\w+', s)): the maximal runs of word characters
Words(s) ==
  {SubSeq(s, a, b) : <<a, b>> \in
     {w \in (1..Len(s)) \X (1..Len(s)) :
        /\ w[1] <= w[2]
        /\ \A k \in w[1]..w[2] : s[k] \in WordChars
        /\ (w[1] = 1 \/ s[w[1] - 1] \notin WordChars)
        /\ (w[2] = Len(s) \/ s[w[2] + 1] \notin WordChars)}}

\* an overlap score that is not held under its ceiling
OverlapScoreUnbounded(query_words, result_words, ceiling) ==
  IF query_words # {} /\ result_words # {}
  THEN (Cardinality(query_words \cap result_words) * One)
         \div Cardinality(query_words \cup result_words)
  ELSE Conf(5)

\* min(ceiling, overlap / total_words), or the default when a word set is empty
OverlapScore(query_words, result_words, ceiling) ==
  IF query_words # {} /\ result_words # {}
  THEN Min(ceiling, (Cardinality(query_words \cap result_words) * One)
                      \div Cardinality(query_words \cup result_words))
  ELSE Conf(5)

\* DiscogsCrawler._calculate_confidence; title is result.get('title', '')
DiscogsConfidence(original_query, title) ==
  LET t == Lower(title)
      q == Lower(original_query)
  IN IF Contains(t, q) \/ Contains(q, t)
     THEN Conf(9)
     ELSE OverlapScore(Words(q), Words(t), Conf(8))

\* a Storefront scorer that leaves the artist's words out of the overlap
BandcampConfidenceTitleWords(original_query, title, artist) ==
  LET t == Lower(title)
      a == Lower(artist)
      q == Lower(original_query)
  IN IF Contains(t, q) \/ Contains(q, t) THEN Conf(9)
     ELSE IF Contains(a, q) \/ Contains(q, a) THEN Conf(8)
     ELSE OverlapScore(Words(q), Words(t), Conf(7))

\* BandcampCrawler._calculate_confidence
BandcampConfidence(original_query, title, artist) ==
  LET t == Lower(title)
      a == Lower(artist)
      q == Lower(original_query)
  IN IF Contains(t, q) \/ Contains(q, t) THEN Conf(9)
     ELSE IF Contains(a, q) \/ Contains(q, a) THEN Conf(8)
     ELSE OverlapScore(Words(q), Words(t) \cup Words(a), Conf(7))

(***************************************************************************)
(* YouTubeCrawler                                                          *)
(* A body is the sequence of the "videoId":"..." occurrences of the page,  *)
(* each [ctx, id] with ctx the object that holds it.                       *)
(***************************************************************************)
\* the four patterns of _extract_video_urls, in the order they are tried
VideoPatterns == <<"videoRenderer", "compactVideoRenderer", "watchEndpoint", "videoId">>

\* re.findall(pattern, html_content): the bare "videoId" pattern matches every
\* occurrence, the others those inside their own object
RECURSIVE FindAllIds(_, _)
FindAllIds(pattern, body) ==
  IF body = <<>> THEN <<>>
  ELSE (IF pattern = "videoId" \/ Head(body).ctx = pattern THEN <<Head(body).id>> ELSE <<>>)
       \o FindAllIds(pattern, Tail(body))

\* an inner loop that counts repeated ids towards the five
CollectIdsCountsDuplicates(matches, acc) ==
  acc \o SubSeq(matches, 1, Min(5 - Len(acc), Len(matches)))

\* the inner for loop: unseen ids are appended until five are held
RECURSIVE CollectIds(_, _)
CollectIds(matches, acc) ==
  IF matches = <<>> THEN acc
  ELSE IF \E k \in 1..Len(acc) : acc[k] = Head(matches)
       THEN CollectIds(Tail(matches), acc)
       ELSE IF Len(acc) + 1 >= 5
            THEN Append(acc, Head(matches))
            ELSE CollectIds(Tail(matches), Append(acc, Head(matches)))

\* the matches of the patterns from the n-th on, one pattern after the other
RECURSIVE MatchesOfPatternsFrom(_, _)
MatchesOfPatternsFrom(n, body) ==
  IF n > Len(VideoPatterns) THEN <<>>
  ELSE FindAllIds(VideoPatterns[n], body) \o MatchesOfPatternsFrom(n + 1, body)

\* an outer loop that goes on to the next pattern until five ids are held
IdsFromEveryPattern(n, body) == CollectIds(MatchesOfPatternsFrom(n, body), <<>>)

\* the outer for loop: the first pattern that yields anything is used
RECURSIVE IdsFromPatterns(_, _)
IdsFromPatterns(n, body) ==
  IF n > Len(VideoPatterns) THEN <<>>
  ELSE LET ids == CollectIds(FindAllIds(VideoPatterns[n], body), <<>>)
       IN IF ids # <<>> THEN ids ELSE IdsFromPatterns(n + 1, body)

\* "Remove duplicates while preserving order"
RECURSIVE Unique(_, _)
Unique(xs, acc) ==
  IF xs = <<>> THEN acc
  ELSE IF \E k \in 1..Len(acc) : acc[k] = Head(xs)
       THEN Unique(Tail(xs), acc)
       ELSE Unique(Tail(xs), Append(acc, Head(xs)))

\* xs[:n]
Take(xs, n) == SubSeq(xs, 1, Min(n, Len(xs)))

\* YouTubeCrawler._extract_video_urls
ExtractVideoUrls(body) ==
  LET ids == Take(Unique(IdsFromPatterns(1, body), <<>>), 5)
  IN [k \in 1..Len(ids) |-> <<"https://www.youtube.com/watch?v=", ids[k]>>]

\* YouTubeCrawler.search: the result and the number of HTTP requests issued
YouTubeSearch(query, resp) ==
  LET clean_query == YouTubeCleanQuery(query)
  IN IF resp.raised THEN [result |-> ExceptResult(query, resp.exc), requests |-> 1]
     ELSE IF RaisesForStatus(resp.status)
     THEN [result |-> ExceptResult(query, "HTTPError"), requests |-> 1]
     ELSE LET video_urls == ExtractVideoUrls(resp.body)
          IN IF video_urls # <<>>
             THEN [result |-> Result(video_urls[1], Conf(8), clean_query, None,
                                     Len(video_urls), None),
                   requests |-> 1]
             ELSE [result |-> NoResultsFound(clean_query), requests |-> 1]

(***************************************************************************)
(* DiscogsCrawler                                                          *)
(* A body is data['results']: records [title, uri]; title is None for a    *)
(* JSON null, uri is the empty text when the key is missing.               *)
(***************************************************************************)
\* a URL built without the last elif: only the two recognized prefixes
DiscogsUrlRecognizedOnly(uri) ==
  IF StartsWith(uri, <<"/", "releases", "/">>) \/ StartsWith(uri, <<"/", "masters", "/">>)
  THEN <<"https://www.discogs.com">> \o uri
  ELSE uri

\* "Build proper URL"
DiscogsUrl(uri) ==
  IF uri = <<>> THEN uri
  ELSE IF StartsWith(uri, <<"/", "releases", "/">>) THEN <<"https://www.discogs.com">> \o uri
  ELSE IF StartsWith(uri, <<"/", "masters", "/">>) THEN <<"https://www.discogs.com">> \o uri
  ELSE IF ~ (Head(uri) \in {"http:", "https:"}) THEN <<"https://www.discogs.com">> \o uri
  ELSE uri

\* DiscogsStatusError with the bug of a missing 429 branch
DiscogsStatusErrorOnly401(status) ==
  IF status = 401 THEN <<"Unauthorized - need Discogs token">> ELSE None

\* "Check response status": the error of a 401 and of a 429, None otherwise
DiscogsStatusError(status) ==
  IF status = 401 THEN <<"Unauthorized - need Discogs token">>
  ELSE IF status = 429 THEN <<"Rate limited - try again later">>
  ELSE None

\* DiscogsCrawler.search: the result and the number of HTTP requests issued
DiscogsSearch(query, resp) ==
  LET clean_query == DiscogsCleanQuery(query)
  IN IF resp.raised THEN [result |-> ExceptResult(query, resp.exc), requests |-> 1]
     ELSE IF DiscogsStatusError(resp.status) # None
     THEN [result |-> Result(None, 0, clean_query, None, -1,
                             DiscogsStatusError(resp.status)),
           requests |-> 1]
     ELSE IF RaisesForStatus(resp.status)
     THEN [result |-> ExceptResult(query, "HTTPError"), requests |-> 1]
     ELSE IF ~ resp.json
     THEN [result |-> ExceptResult(query, "JSONDecodeError"), requests |-> 1]
     ELSE IF resp.body # <<>>
     THEN LET best_match == resp.body[1]
          IN IF best_match.title = None
             THEN [result |-> ExceptResult(query, "AttributeError"), requests |-> 1]
             ELSE [result |-> Result(DiscogsUrl(best_match.uri),
                                     DiscogsConfidence(query, best_match.title),
                                     clean_query, None, Len(resp.body), None),
                   requests |-> 1]
     ELSE [result |-> NoResultsFound(clean_query), requests |-> 1]

(***************************************************************************)
(* BandcampCrawler                                                         *)
(* A body is the sequence of the page's items [kind, href, heading,        *)
(* subhead]: "result" is a result <div> holding a link, a heading and a    *)
(* subhead (the first pattern), "aresult" the same under a result <a> (the *)
(* second pattern), "link" a lone href, "heading" a lone heading element.  *)
(* A URL is split at every "/".                                            *)
(***************************************************************************)
\* "Clean up the URL"
BandcampUrl(href) ==
  IF StartsWith(href, <<"/">>) THEN <<"https://bandcamp.com">> \o href
  ELSE IF ~ (href # <<>> /\ Head(href) \in {"http:", "https:"})
  THEN <<"https://bandcamp.com", "/">> \o href
  ELSE href

\* any(skip in url.lower() for skip in ['/tag/', '/label/', '/fan/'])
NotMusic(url) ==
  \E skip \in {"tag", "label", "fan"} : Contains(Lower(url), <<"/", skip, "/">>)

\* the inner for loop of _extract_search_results over one pattern's matches
RECURSIVE CollectResults(_, _, _)
CollectResults(pattern, body, acc) ==
  IF body = <<>> THEN acc
  ELSE LET match == Head(body)
           url == BandcampUrl(match.href)
           found == [url |-> url, title |-> Strip(match.heading),
                     artist |-> Strip(match.subhead)]
       IN IF match.kind # pattern \/ NotMusic(url)
          THEN CollectResults(pattern, Tail(body), acc)
          ELSE IF Len(acc) + 1 >= 5
               THEN Append(acc, found)
               ELSE CollectResults(pattern, Tail(body), Append(acc, found))

\* re.findall(link_pattern, html_content): every href that is an https URL
\* of a host under .bandcamp.com
RECURSIVE FindAllLinks(_)
FindAllLinks(body) ==
  IF body = <<>> THEN <<>>
  ELSE LET href == Head(body).href
       IN (IF /\ Head(body).kind \in {"result", "aresult", "link"}
              /\ StartsWith(href, <<"https:", "/", "/">>)
              /\ \E k \in 4..(Len(href) - 1) : href[k] = ".bandcamp.com" /\ href[k + 1] = "/"
           THEN <<href>> ELSE <<>>)
          \o FindAllLinks(Tail(body))

\* re.findall(title_pattern, html_content): every non-empty heading text
RECURSIVE FindAllTitles(_)
FindAllTitles(body) ==
  IF body = <<>> THEN <<>>
  ELSE (IF Head(body).kind \in {"result", "aresult", "heading"} /\ Head(body).heading # <<>>
        THEN <<Head(body).heading>> ELSE <<>>)
       \o FindAllTitles(Tail(body))

UnknownTrack == <<"U", "n", "k", "n", "o", "w", "n", " ", "T", "r", "a", "c", "k">>

\* BandcampCrawler._extract_simple_results
ExtractSimpleResults(body) ==
  LET links == Take(FindAllLinks(body), 5)
      titles == FindAllTitles(body)
  IN [k \in 1..Len(links) |->
        [url |-> links[k],
         title |-> Strip(IF k <= Len(titles) THEN titles[k] ELSE UnknownTrack),
         artist |-> <<>>]]

\* BandcampCrawler._extract_search_results
ExtractSearchResults(body) ==
  LET first == CollectResults("result", body, <<>>)
      structured == IF first # <<>> THEN first ELSE CollectResults("aresult", body, <<>>)
  IN Take(IF structured # <<>> THEN structured ELSE ExtractSimpleResults(body), 5)

\* BlockedResult with the bug of treating a block as a failure
BlockedResultAsError(search_url, clean_query, note) ==
  Result(None, 0, clean_query, <<note>>, -1, <<note>>)

\* the degraded result of a 403 or a 429: the search page itself
BlockedResult(search_url, clean_query, note) ==
  Result(search_url, Conf(6), clean_query, <<note>>, -1, None)

\* BandcampCrawler.search: the result and the number of HTTP requests issued
BandcampSearch(query, resp) ==
  LET clean_query == BandcampCleanQuery(query)
      search_url == <<"https://bandcamp.com/search?q=">> \o Quote(clean_query)
  IN IF resp.raised THEN [result |-> ExceptResult(query, resp.exc), requests |-> 1]
     ELSE IF resp.status = 403
     THEN [result |-> BlockedResult(search_url, clean_query,
                        "Manual search required - Bandcamp blocked automated requests"),
           requests |-> 1]
     ELSE IF resp.status = 429
     THEN [result |-> BlockedResult(search_url, clean_query,
                        "Manual search required - Bandcamp rate limited"),
           requests |-> 1]
     ELSE IF RaisesForStatus(resp.status)
     THEN [result |-> ExceptResult(query, "HTTPError"), requests |-> 1]
     ELSE LET results == ExtractSearchResults(resp.body)
          IN IF results # <<>>
             THEN LET best_match == results[1]
                  IN [result |-> Result(best_match.url,
                                        BandcampConfidence(query, best_match.title,
                                                           best_match.artist),
                                        clean_query, None, Len(results), None),
                      requests |-> 1]
             ELSE [result |-> NoResultsFound(clean_query), requests |-> 1]

(***************************************************************************)
(* SearchManager                                                           *)
(***************************************************************************)
\* the keys of self.crawlers, in insertion order
CrawlerOrder == <<"youtube", "discogs", "bandcamp">>
Crawlers == {CrawlerOrder[k] : k \in 1..Len(CrawlerOrder)}

\* delay_between_searches of each crawler, in tenths of a second
Delay == [p \in Crawlers |->
            CASE p = "youtube" -> 15 [] p = "discogs" -> 10 [] p = "bandcamp" -> 20]

\* self.crawlers[platform_name].search(track)
CrawlerSearch(platform_name, track, resp) ==
  CASE platform_name = "youtube" -> YouTubeSearch(track, resp)
    [] platform_name = "discogs" -> DiscogsSearch(track, resp)
    [] platform_name = "bandcamp" -> BandcampSearch(track, resp)

\* the orders in which a for loop may iterate over the set S
Orders(S) ==
  {o \in [1..Cardinality(S) -> S] : \A a, b \in 1..Cardinality(S) : o[a] = o[b] => a = b}

\* DictSet with the bug of dropping the result of a platform that failed
DictSetSkipsFailures(d, key, value) ==
  IF value.error # None THEN d ELSE Append(d, [platform |-> key, result |-> value])

\* d[key] = value on a dict kept as the sequence of its items
DictSet(d, key, value) ==
  IF \E k \in 1..Len(d) : d[k].platform = key
  THEN [k \in 1..Len(d) |-> IF d[k].platform = key THEN [platform |-> key, result |-> value]
                            ELSE d[k]]
  ELSE Append(d, [platform |-> key, result |-> value])

\* the keys of a dict
Keys(d) == {d[k].platform : k \in 1..Len(d)}

\* the loop with ">=" for ">": an equal confidence replaces the best so far
RECURSIVE BestFromKeepsEqual(_, _, _, _)
BestFromKeepsEqual(platform_results, k, best_platform, best_confidence) ==
  IF k > Len(platform_results)
  THEN [platform |-> best_platform, confidence |-> best_confidence]
  ELSE LET result == platform_results[k].result
       IN IF Truthy(result.url) /\ result.confidence >= best_confidence
          THEN BestFromKeepsEqual(platform_results, k + 1, platform_results[k].platform,
                                  result.confidence)
          ELSE BestFromKeepsEqual(platform_results, k + 1, best_platform, best_confidence)

\* the for loop of _find_best_match over the items from position k on
RECURSIVE BestFrom(_, _, _, _)
BestFrom(platform_results, k, best_platform, best_confidence) ==
  IF k > Len(platform_results)
  THEN [platform |-> best_platform, confidence |-> best_confidence]
  ELSE LET result == platform_results[k].result
       IN IF Truthy(result.url) /\ result.confidence > best_confidence
          THEN BestFrom(platform_results, k + 1, platform_results[k].platform,
                        result.confidence)
          ELSE BestFrom(platform_results, k + 1, best_platform, best_confidence)

\* FindBestMatch with the bug of defaulting to the first crawler
FindBestMatchFirstCrawler(platform_results) ==
  LET best == BestFrom(platform_results, 1, CrawlerOrder[1], 0)
  IN best

\* SearchManager._find_best_match
FindBestMatch(platform_results) ==
  LET best == BestFrom(platform_results, 1, NoPlatform, 0)
  IN IF best.platform # NoPlatform THEN best
     ELSE [platform |-> NoPlatform, confidence |-> 0]

VARIABLES
  enabled_platforms,  \* self.enabled_platforms
  lastOp,             \* per platform, the last enable/disable call that named it
  pc,                 \* "idle", or "loop" inside search_track
  track,              \* the argument of the last search_track call
  order,              \* the order in which this call iterates enabled_platforms
  idx,                \* position of the for loop in order
  results,            \* search_track's local dict, as the sequence of its items
  events,             \* the crawler calls the current manager call has made
  ret,                \* <<value>> returned by the last call if it was search_track
  input,              \* <<arguments>> of the crawler call under study (<<>> for the manager)
  call                \* <<value>> that call returned, <<>> before it

vars ==
  <<enabled_platforms, lastOp, pc, track, order, idx, results, events, ret, input, call>>

managerVars == <<enabled_platforms, lastOp, pc, track, order, idx, results, events, ret>>

(***************************************************************************)
(* Inputs                                                                  *)
(***************************************************************************)
\* longest generated query, and longest generated response body (in items)
MaxQueryLen == 3
MaxItems == 2

\* all sequences over S of length at most n
SeqsUpTo(S, n) == UNION {[1..k -> S] : k \in 0..n}

\* "a - b", "A (b !)", "a (Mix)", "(remix) b", "a'b", "x"
QueryAB == <<"a", " ", "-", " ", "b">>
QueryBang == <<"A", " ", "(", "b", " ", "!", ")">>
QueryMix == <<"a", " ", "(", "M", "i", "x", ")">>
QueryRemix == <<"(", "r", "e", "m", "i", "x", ")", " ", "b">>
QueryApos == <<"a", "'", "b">>
QueryX == <<"x">>

Queries ==
  SeqsUpTo({"a", " ", "!"}, MaxQueryLen)
    \cup {QueryAB, QueryBang, QueryMix, QueryRemix, QueryApos, QueryX, <<" ", "\t">>}

\* what session.get() can raise: a connection error, a timeout
Exceptions == {"ConnectionError", "Timeout"}

\* statuses raise_for_status() raises on (200 and 300 are the ones it lets through)
ErrorStatuses == {401, 403, 404, 429, 500}

\* the responses to one request, over the bodies Bodies (a 300 carries at
\* most one item)
Responses(Bodies, ShortBodies) ==
  {Raised(e) : e \in Exceptions}
    \cup {Answer(st, <<>>) : st \in ErrorStatuses}
    \cup {Answer(200, b) : b \in Bodies}
    \cup {Answer(300, b) : b \in ShortBodies}

VideoItems == [ctx : {VideoPatterns[k] : k \in 1..Len(VideoPatterns)}, id : {"id1", "id2"}]

ReleaseUri == <<"/", "releases", "/", "1">>
Record(title, uri) == [title |-> title, uri |-> uri]

DiscogsRecords ==
  {Record(QueryAB, ReleaseUri),
   Record(QueryAB, <<>>),
   Record(<<"a">>, <<"/", "masters", "/", "1">>),
   Record(<<"c">>, ReleaseUri),
   Record(<<"c">>, <<>>),
   Record(<<"a", " ", "c">>, <<"/", "artist", "/", "1">>),
   Record(<<>>, <<"https:", "/", "/", "www.discogs.com", "/", "1">>),
   Record(None, ReleaseUri)}

Item(kind, href, heading, subhead) ==
  [kind |-> kind, href |-> href, heading |-> heading, subhead |-> subhead]

AlbumHref == <<"/", "album", "/", "a">>
TagHref == <<"https:", "/", "/", "x", ".bandcamp.com", "/", "TAG", "/", "a">>
TrackHref == <<"https:", "/", "/", "x", ".bandcamp.com", "/", "track", "/", "a">>

BandcampItems ==
  {Item("result", AlbumHref, <<"a">>, <<"b">>),
   Item("result", TagHref, <<"a">>, <<"b">>),
   Item("result", <<"album", "/", "a">>, <<" ", "c", " ">>, <<"c">>),
   Item("aresult", TrackHref, QueryAB, <<>>),
   Item("aresult", AlbumHref, <<>>, <<"a">>),
   Item("link", TrackHref, <<>>, <<>>),
   Item("link", <<"https:", "/", "/", "bandcamp.com", "/", "a">>, <<>>, <<>>),
   Item("heading", <<>>, <<"c">>, <<>>)}

\* the responses each crawler is run against
ClientResponses(platform) ==
  CASE platform = "youtube" ->
         Responses(SeqsUpTo(VideoItems, MaxItems), SeqsUpTo(VideoItems, 1))
    [] platform = "discogs" ->
         Responses(SeqsUpTo(DiscogsRecords, MaxItems), SeqsUpTo(DiscogsRecords, 1))
           \cup {NotJson(200)}
    [] platform = "bandcamp" ->
         Responses(SeqsUpTo(BandcampItems, MaxItems), SeqsUpTo(BandcampItems, 1))

\* the tracks and the responses the manager is run against
Tracks == {QueryAB, QueryX, <<>>}

ManagerResponses(platform) ==
  CASE platform = "youtube" ->
         {Raised("Timeout"), Answer(200, <<>>),
          Answer(200, <<[ctx |-> "videoRenderer", id |-> "id1"]>>)}
    [] platform = "discogs" ->
         {Answer(401, <<>>),
          Answer(200, <<Record(QueryAB, ReleaseUri)>>),
          Answer(200, <<Record(QueryAB, <<>>)>>),
          Answer(200, <<Record(<<"c">>, ReleaseUri)>>),
          Answer(200, <<Record(<<"a", " ", "c">>, ReleaseUri)>>)}
    [] platform = "bandcamp" ->
         {Answer(403, <<>>), Raised("ConnectionError"),
          Answer(200, <<Item("result", AlbumHref, <<"a">>, <<"b">>)>>)}

\* the names enable_platform and disable_platform are called with
PlatformNames == Crawlers \cup {"spotify"}

(***************************************************************************)
(* The state machine                                                       *)
(***************************************************************************)
\* SearchManager.__init__
InitManager ==
  /\ enabled_platforms = Crawlers
  /\ lastOp = [p \in Crawlers |-> "none"]
  /\ pc = "idle"
  /\ track = <<>>
  /\ order = <<>>
  /\ idx = 0
  /\ results = <<>>
  /\ events = <<>>
  /\ ret = <<>>

\* a fresh manager, before any call
Init ==
  /\ InitManager
  /\ input = <<>>
  /\ call = <<>>

\* the history of enable/disable calls after one that names platform
Named(platform, op) ==
  IF platform \in Crawlers THEN [lastOp EXCEPT ![platform] = op] ELSE lastOp

\* enable_platform without the test "if platform in self.crawlers"
EnablePlatformAnyName(platform) ==
  /\ pc = "idle"
  /\ enabled_platforms' = enabled_platforms \cup {platform}
  /\ lastOp' = Named(platform, "enable")
  /\ events' = <<>>
  /\ ret' = <<>>
  /\ UNCHANGED <<pc, track, order, idx, results, input, call>>

\* SearchManager.enable_platform
EnablePlatform(platform) ==
  /\ pc = "idle"
  /\ enabled_platforms' =
       IF platform \in Crawlers THEN enabled_platforms \cup {platform}
       ELSE enabled_platforms
  /\ lastOp' = Named(platform, "enable")
  /\ events' = <<>>
  /\ ret' = <<>>
  /\ UNCHANGED <<pc, track, order, idx, results, input, call>>

\* DisablePlatform with the bug of discarding from a copy of the set
DisablePlatformKeepsSet(platform) ==
  /\ pc = "idle"
  /\ enabled_platforms' = enabled_platforms
  /\ lastOp' = Named(platform, "disable")
  /\ events' = <<>>
  /\ ret' = <<>>
  /\ UNCHANGED <<pc, track, order, idx, results, input, call>>

\* SearchManager.disable_platform
DisablePlatform(platform) ==
  /\ pc = "idle"
  /\ enabled_platforms' = enabled_platforms \ {platform}
  /\ lastOp' = Named(platform, "disable")
  /\ events' = <<>>
  /\ ret' = <<>>
  /\ UNCHANGED <<pc, track, order, idx, results, input, call>>

\* SearchManager.enable_bandcamp
EnableBandcamp ==
  /\ pc = "idle"
  /\ enabled_platforms' =
       IF "bandcamp" \in Crawlers THEN enabled_platforms \cup {"bandcamp"}
       ELSE enabled_platforms
  /\ lastOp' = Named("bandcamp", "enable")
  /\ events' = <<>>
  /\ ret' = <<>>
  /\ UNCHANGED <<pc, track, order, idx, results, input, call>>

\* search_track is entered: results = {} and the for loop fixes its order
SearchTrackBegin(t, o) ==
  /\ pc = "idle"
  /\ o \in Orders(enabled_platforms)
  /\ pc' = "loop"
  /\ track' = t
  /\ order' = o
  /\ idx' = 1
  /\ results' = <<>>
  /\ events' = <<>>
  /\ ret' = <<>>
  /\ UNCHANGED <<enabled_platforms, lastOp, input, call>>

\* IterationEvents with the bug of comparing with list(...)[0]
IterationEventsSkipsAfterFirst(platform_name, o) ==
  <<[type |-> "search", platform |-> platform_name, delay |-> 0]>>
    \o (IF platform_name # o[1]
        THEN <<[type |-> "wait", platform |-> platform_name, delay |-> Delay[platform_name]]>>
        ELSE <<>>)

\* the events of one iteration: the search, then the wait unless the platform
\* is list(self.enabled_platforms)[-1]
IterationEvents(platform_name, o) ==
  <<[type |-> "search", platform |-> platform_name, delay |-> 0]>>
    \o (IF platform_name # o[Len(o)]
        THEN <<[type |-> "wait", platform |-> platform_name, delay |-> Delay[platform_name]]>>
        ELSE <<>>)

\* an iteration that disables the platform whose search failed
LoopIterationDropsFailed(resp) ==
  /\ pc = "loop"
  /\ idx <= Len(order)
  /\ resp \in ManagerResponses(order[idx])
  /\ results' = DictSet(results, order[idx], CrawlerSearch(order[idx], track, resp).result)
  /\ events' = events \o IterationEvents(order[idx], order)
  /\ enabled_platforms' =
       IF CrawlerSearch(order[idx], track, resp).result.error # None
       THEN enabled_platforms \ {order[idx]}
       ELSE enabled_platforms
  /\ idx' = idx + 1
  /\ UNCHANGED <<lastOp, pc, track, order, ret, input, call>>

\* one iteration of the for loop of search_track
LoopIteration(resp) ==
  /\ pc = "loop"
  /\ idx <= Len(order)
  /\ resp \in ManagerResponses(order[idx])
  /\ IF order[idx] \in Crawlers
     THEN /\ results' = DictSet(results, order[idx],
                                CrawlerSearch(order[idx], track, resp).result)
          /\ events' = events \o IterationEvents(order[idx], order)
     ELSE UNCHANGED <<results, events>>
  /\ idx' = idx + 1
  /\ UNCHANGED <<enabled_platforms, lastOp, pc, track, order, ret, input, call>>

\* a return that waits for one iteration more than the loop makes
SearchTrackReturnOffByOne ==
  /\ pc = "loop"
  /\ idx > Len(order) + 1
  /\ ret' = <<[track |-> track, platforms |-> results,
               best_match |-> FindBestMatch(results)]>>
  /\ pc' = "idle"
  /\ order' = <<>>
  /\ idx' = 0
  /\ results' = <<>>
  /\ UNCHANGED <<enabled_platforms, lastOp, track, events, input, call>>

\* the return statement of search_track
SearchTrackReturn ==
  /\ pc = "loop"
  /\ idx > Len(order)
  /\ ret' = <<[track |-> track, platforms |-> results,
               best_match |-> FindBestMatch(results)]>>
  /\ pc' = "idle"
  /\ order' = <<>>
  /\ idx' = 0
  /\ results' = <<>>
  /\ UNCHANGED <<enabled_platforms, lastOp, track, events, input, call>>

Next ==
  \/ \E platform \in PlatformNames : EnablePlatform(platform)
  \/ \E platform \in PlatformNames : DisablePlatform(platform)
  \/ EnableBandcamp
  \/ \E t \in Tracks : \E o \in Orders(enabled_platforms) : SearchTrackBegin(t, o)
  \/ \E resp \in UNION {ManagerResponses(p) : p \in Crawlers} : LoopIteration(resp)
  \/ SearchTrackReturn

Spec == Init /\ [][Next]_vars

\* the for loop makes one more iteration
Iteration == \E resp \in UNION {ManagerResponses(p) : p \in Crawlers} : LoopIteration(resp)

\* Weak fairness of Iteration, with its enabling condition written out: an
\* iteration can be made exactly when the loop has a platform left, whatever
\* the answer to the request is.
IterationIsFair ==
  \/ []<>~(pc = "loop" /\ idx <= Len(order))
  \/ []<><<Iteration>>_vars

\* search_track runs in one thread and every request is answered or times
\* out, so an iteration that can be made is made and a return that can be
\* taken is taken
SpecFair ==
  /\ Init
  /\ [][Next]_vars
  /\ IterationIsFair
  /\ WF_vars(SearchTrackReturn)

\* a crawler of a fresh manager, a query for it and the answer to its request
InitClient ==
  /\ InitManager
  /\ input \in {<<[platform |-> platform, query |-> query, resp |-> resp]>> :
                  <<platform, query, resp>> \in
                    UNION {{p} \X Queries \X ClientResponses(p) : p \in Crawlers}}
  /\ call = <<>>

\* the call crawler.search(query) on that input
SearchClient ==
  /\ input # <<>>
  /\ call = <<>>
  /\ call' = <<CrawlerSearch(input[1].platform, input[1].query, input[1].resp)>>
  /\ UNCHANGED <<managerVars, input>>

NextClient == SearchClient

SpecClient == InitClient /\ [][NextClient]_vars

(***************************************************************************)
(* Properties of the crawlers (checked under SpecClient)                   *)
(***************************************************************************)
\* search() has been called on the input and has returned
Called == input # <<>> /\ call # <<>>
In == input[1]
Out == call[1].result

\* the number of candidates the platform's extractor finds in a body
Candidates(platform, body) ==
  CASE platform = "youtube" -> Len(ExtractVideoUrls(body))
    [] platform = "discogs" -> Len(body)
    [] platform = "bandcamp" -> Len(ExtractSearchResults(body))

\* the record of a failure: no url, confidence 0.0, an error
FailureRecord(r) == r.url = None /\ r.confidence = 0 /\ r.error # None

\* the request was answered and the answer is a Storefront 403 or 429
Blocked == In.platform = "bandcamp" /\ ~ In.resp.raised /\ In.resp.status \in {403, 429}

C2_UrlImpliesConfidence == Called => (Out.url # None => Out.confidence > 0)

\* a query that is empty or nothing but whitespace
Blank(q) == \A k \in 1..Len(q) : q[k] \in SpaceChars

\* C4: on an empty or whitespace-only query every client returns a failure
\* record, whatever the platform answers.
C4_BlankQueryFails == (Called /\ Blank(In.query)) => FailureRecord(Out)

\* C8 as stated: a Bandcamp 403 or 429 gives the url made of the search
\* prefix and the cleaned query, confidence 0.6, no error and a note.
C8_UrlIsCleanedQuery ==
  (Called /\ Blocked) =>
    /\ Out.url = <<"https://bandcamp.com/search?q=">> \o BandcampCleanQuery(In.query)
    /\ Out.confidence = Conf(6)
    /\ Out.error = None
    /\ Out.metadata.note # None

\* the two notes of the degraded result
ManualSearchNotes ==
  {<<"Manual search required - Bandcamp blocked automated requests">>,
   <<"Manual search required - Bandcamp rate limited">>}

\* C8 as amended: a Bandcamp 403 or 429 gives the url made of the search
\* prefix and the percent-encoded cleaned query, confidence 0.6, no error and
\* a manual-search note; nothing is extracted (no total_results); for the
\* query "A (b !)" the url ends in A%20%28b%20%29.
C8_BlockedGivesQuotedSearchUrl ==
  (Called /\ Blocked) =>
    /\ Out.url = <<"https://bandcamp.com/search?q=">> \o Quote(BandcampCleanQuery(In.query))
    /\ Out.confidence = Conf(6)
    /\ Out.error = None
    /\ Out.metadata.note \in ManualSearchNotes
    /\ Out.metadata.total_results = -1
    /\ (In.query = QueryBang =>
          Out.url = <<"https://bandcamp.com/search?q=", "A", "%20", "%28", "b", "%20", "%29">>)

\* the scenario query answered by a 403
C8_Witness ==
  /\ Called
  /\ Blocked
  /\ In.resp.status = 403
  /\ In.query = QueryBang
  /\ Out.url # None

\* C9: a Discogs 401 gives a failure record with the error 'Unauthorized -
\* need Discogs token', a 429 one with 'Rate limited - try again later'
\* (not the generic HTTP error), and one request is made.
C9_DiscogsStatusErrors ==
  (Called /\ In.platform = "discogs" /\ ~ In.resp.raised) =>
    /\ (In.resp.status = 401 =>
          /\ FailureRecord(Out)
          /\ Out.error = <<"Unauthorized - need Discogs token">>
          /\ call[1].requests = 1)
    /\ (In.resp.status = 429 =>
          /\ FailureRecord(Out)
          /\ Out.error = <<"Rate limited - try again later">>
          /\ call[1].requests = 1)

\* a Discogs search answered by a 429
C9_Witness ==
  /\ Called
  /\ In.platform = "discogs"
  /\ In.resp.status = 429
  /\ Out.error = <<"Rate limited - try again later">>

(***************************************************************************)
(* Properties of the manager (checked under Spec)                          *)
(***************************************************************************)
\* search_track has returned and nothing has been called since
Returned == ret # <<>>
Platforms == ret[1].platforms
BestMatch == ret[1].best_match

\* the number of events of one type about one platform
Count(type, platform) ==
  Cardinality({k \in 1..Len(events) :
                 events[k].type = type /\ events[k].platform = platform})

\* C3: best_match.confidence is the greatest confidence among the entries of
\* platforms whose url is not null, and best_match is {null, 0.0} when there
\* is no such entry.
C3_BestIsMaxOverUrls ==
  Returned =>
    LET withUrl == {k \in 1..Len(Platforms) : Platforms[k].result.url # None}
    IN IF withUrl = {}
       THEN BestMatch = [platform |-> NoPlatform, confidence |-> 0]
       ELSE /\ \A k \in withUrl : Platforms[k].result.confidence <= BestMatch.confidence
            /\ \E k \in withUrl : Platforms[k].result.confidence = BestMatch.confidence

\* C5: a search_track call searches each enabled platform once and no other,
\* and its platforms has one entry per enabled platform, whatever the
\* outcome of each search.
C5_EveryEnabledPlatformOnce ==
  Returned =>
    /\ Keys(Platforms) = enabled_platforms
    /\ Len(Platforms) = Cardinality(enabled_platforms)
    /\ \A p \in Crawlers : Count("search", p) = (IF p \in enabled_platforms THEN 1 ELSE 0)

\* a call in which one platform raised, one found nothing and one matched
C5_Witness ==
  /\ Returned
  /\ enabled_platforms = Crawlers
  /\ \E a, b, c \in 1..Len(Platforms) :
       /\ Platforms[a].result.error = <<"Timeout">>
       /\ Platforms[b].result.error = <<"Unauthorized - need Discogs token">>
       /\ Platforms[c].result.url # None

\* C6: once the last enable/disable call that names p is disable_platform(p),
\* a search_track call does not search p, returns no entry for p and does not
\* pick p as best match.
C6_DisabledIsSkipped ==
  \A p \in Crawlers :
    lastOp[p] = "disable" =>
      /\ Count("search", p) = 0
      /\ Count("wait", p) = 0
      /\ pc = "loop" => \A k \in 1..Len(order) : order[k] # p
      /\ Returned => (p \notin Keys(Platforms) /\ BestMatch.platform # p)

\* a call that returned a match while bandcamp was disabled
C6_Witness ==
  /\ Returned
  /\ lastOp["bandcamp"] = "disable"
  /\ lastOp["youtube"] = "enable"
  /\ BestMatch.platform # NoPlatform

\* C7: with every platform disabled, search_track(t) makes no search and no
\* wait and returns {track: t, platforms: {}, best_match: {null, 0.0}}.
C7_NothingEnabled ==
  (Returned /\ enabled_platforms = {}) =>
    /\ events = <<>>
    /\ ret[1] = [track |-> track, platforms |-> <<>>,
                 best_match |-> [platform |-> NoPlatform, confidence |-> 0]]

\* search_track("a - b") has returned with every platform disabled
C7_Witness ==
  /\ Returned
  /\ enabled_platforms = {}
  /\ ret[1].track = QueryAB

\* the events of the first n iterations over the platforms o[1], ..., o[Len(o)]:
\* each search, followed by the platform's own wait unless it is the last
RECURSIVE PacedEvents(_, _)
PacedEvents(o, n) ==
  IF n = 0 THEN <<>>
  ELSE PacedEvents(o, n - 1)
         \o <<[type |-> "search", platform |-> o[n], delay |-> 0]>>
         \o (IF n < Len(o)
             THEN <<[type |-> "wait", platform |-> o[n], delay |-> Delay[o[n]]]>>
             ELSE <<>>)

\* C10: the events of a search_track call over p1..pk are search(p1),
\* wait(p1), ..., search(pk) in this order: k-1 waits, each right after the
\* search of a platform that is not the last and with that platform's delay,
\* and none after the last search.
C10_SearchesArePaced ==
  /\ pc = "loop" => events = PacedEvents(order, idx - 1)
  /\ Returned =>
       /\ events = PacedEvents([k \in 1..Len(Platforms) |-> Platforms[k].platform],
                               Len(Platforms))
       /\ Len(Platforms) >= 1 =>
            /\ Cardinality({k \in 1..Len(events) : events[k].type = "wait"})
                 = Len(Platforms) - 1
            /\ events[Len(events)].type = "search"

\* a call over three platforms has returned after two waits
C10_Witness ==
  /\ Returned
  /\ Len(Platforms) = 3
  /\ Len(events) = 5
  /\ events[2] = [type |-> "wait", platform |-> Platforms[1].platform,
                  delay |-> Delay[Platforms[1].platform]]


\* the positions of platforms whose url is not null and whose confidence is
\* the greatest among these
TopWithUrl ==
  LET withUrl == {k \in 1..Len(Platforms) : Platforms[k].result.url # None}
  IN {k \in withUrl :
        \A j \in withUrl : Platforms[j].result.confidence <= Platforms[k].result.confidence}

\* C11: when two or more results with a non-null url share the greatest
\* confidence, best_match.platform is the one of them that was scanned first.
C11_TieGoesToFirstScanned ==
  (Returned /\ Cardinality(TopWithUrl) >= 2) =>
    BestMatch.platform =
      Platforms[CHOOSE k \in TopWithUrl : \A j \in TopWithUrl : k <= j].platform


\* the request was answered 2xx, with a body the client can read
Answered2xx == ~ In.resp.raised /\ In.resp.status \in 200..299 /\ In.resp.json

\* C13: for each client, when the request succeeds (2xx) and zero candidates
\* are extracted, the result is exactly url = null, confidence = 0.0 and
\* error = 'No results found'.
C13_NoCandidatesNoResults ==
  (Called /\ Answered2xx /\ Candidates(In.platform, In.resp.body) = 0) =>
    /\ Out.url = None
    /\ Out.confidence = 0
    /\ Out.error = <<"No results found">>

\* a Storefront page that is not empty, where both strategies find nothing
C13_Witness ==
  /\ Called /\ Answered2xx
  /\ In.platform = "bandcamp"
  /\ In.resp.body # <<>>
  /\ Candidates(In.platform, In.resp.body) = 0
  /\ Out.error = <<"No results found">>

\* C15: the confidence of every result a client returns, and the confidence
\* of best_match in every value search_track returns, lies within [0.0, 1.0].
C15_ConfidenceInUnitInterval ==
  /\ \A k \in 1..Len(results) : results[k].result.confidence \in 0..One
  /\ Returned =>
       /\ \A k \in 1..Len(Platforms) : Platforms[k].result.confidence \in 0..One
       /\ BestMatch.confidence \in 0..One

\* a return with a result scored by word overlap under a best match of 0.9
C15_Witness ==
  /\ Returned
  /\ BestMatch.confidence = Conf(9)
  /\ \E k \in 1..Len(Platforms) :
       /\ Platforms[k].result.confidence > 0
       /\ Platforms[k].result.confidence < Conf(6)

\* C16: every call of search_track eventually returns {track, platforms,
\* best_match} for its track, given that every request is answered or times
\* out and the enabled set is left alone during the call.
C16_SearchTrackTerminates ==
  (pc = "loop") ~> (pc = "idle" /\ Returned /\ ret[1].track = track)

\* a call that returned although a request timed out and another was refused
C16_Witness ==
  /\ Returned
  /\ Len(Platforms) = 3
  /\ \E k \in 1..3 : Platforms[k].result.error = <<"Timeout">>
  /\ \E k \in 1..3 : Platforms[k].result.error = <<"ConnectionError">>

\* the Catalog search succeeded: a first record was read and scored
DiscogsSuccess ==
  /\ Called /\ In.platform = "discogs"
  /\ Answered2xx /\ In.resp.body # <<>>
  /\ Out.error = None

\* the uri of the first record, '' when it has none
FirstUri == In.resp.body[1].uri

\* C20 as stated: in a successful Catalog result the url is the first record's
\* uri prefixed with 'https://www.discogs.com' when the uri begins with
\* '/releases/' or '/masters/', and otherwise the uri exactly as returned.
C20_PrefixOnlyForReleasesAndMasters ==
  DiscogsSuccess =>
    Out.url = IF \/ StartsWith(FirstUri, <<"/", "releases", "/">>)
                 \/ StartsWith(FirstUri, <<"/", "masters", "/">>)
              THEN <<"https://www.discogs.com">> \o FirstUri
              ELSE FirstUri

\* C20 amended: the url is the uri prefixed with 'https://www.discogs.com'
\* whenever the uri is not empty and does not begin with 'http', whatever its
\* path; an absolute or empty uri is returned as it is.
C20_PrefixUnlessAbsoluteOrEmpty ==
  DiscogsSuccess =>
    Out.url = IF FirstUri # <<>> /\ Head(FirstUri) \notin {"http:", "https:"}
              THEN <<"https://www.discogs.com">> \o FirstUri
              ELSE FirstUri

\* a first record whose uri is an artist page
C20_Witness ==
  /\ DiscogsSuccess
  /\ FirstUri = <<"/", "artist", "/", "1">>
  /\ Out.url = <<"https://www.discogs.com", "/", "artist", "/", "1">>

\* the url of the first candidate the platform's extractor finds in a body
FirstCandidateUrl(platform, body) ==
  CASE platform = "youtube" -> ExtractVideoUrls(body)[1]
    [] platform = "discogs" -> DiscogsUrl(body[1].uri)
    [] platform = "bandcamp" -> ExtractSearchResults(body)[1].url

\* C23: for every client, when extraction yields at least one candidate the
\* result's url is that of the first candidate in source order, whatever the
\* others are; for the Video client the confidence is then exactly 0.8.
C23_FirstCandidateIsAdopted ==
  (Called /\ Answered2xx /\ Candidates(In.platform, In.resp.body) >= 1) =>
    /\ Out.url = FirstCandidateUrl(In.platform, In.resp.body)
    /\ In.platform = "youtube" => Out.confidence = Conf(8)

\* C25: the enabled set changes only through enable_platform,
\* disable_platform and enable_bandcamp: no step of a search_track call
\* changes it, whatever the outcomes, and a platform enters or leaves the set
\* only in a call that names it, as that call says.
C25_EnabledSetChangesOnlyByNaming ==
  [][/\ (pc = "loop" \/ pc' = "loop") => enabled_platforms' = enabled_platforms
     /\ \A q \in Crawlers :
          ((q \in enabled_platforms') # (q \in enabled_platforms)) =>
            /\ lastOp[q] # lastOp'[q]
            /\ lastOp'[q] = IF q \in enabled_platforms' THEN "enable" ELSE "disable"]_vars

\* a call returned with failures among its results after discogs alone was
\* disabled
C25_Witness ==
  /\ Returned
  /\ lastOp = [youtube |-> "none", discogs |-> "disable", bandcamp |-> "none"]
  /\ enabled_platforms = {"youtube", "bandcamp"}
  /\ \A k \in 1..Len(Platforms) : Platforms[k].result.error # None

\* C26: after any sequence of enable_platform(x), disable_platform(x) and
\* enable_bandcamp() calls, with names in the registry or not, the enabled
\* set is a subset of the registry; a manager no call has named a registry
\* platform of has all three enabled; and a call that names no registry
\* platform, or repeats the last call that named its platform (so disables a
\* platform that is not enabled), changes nothing.
C26_EnabledWithinRegistry ==
  [][/\ enabled_platforms \subseteq Crawlers
     /\ enabled_platforms' \subseteq Crawlers
     /\ (\A q \in Crawlers : lastOp[q] = "none") => enabled_platforms = Crawlers
     /\ (pc = "idle" /\ pc' = "idle" /\ lastOp' = lastOp) =>
          enabled_platforms' = enabled_platforms]_vars

\* youtube and discogs were disabled and bandcamp enabled again
C26_Witness ==
  /\ lastOp = [youtube |-> "disable", discogs |-> "disable", bandcamp |-> "enable"]
  /\ enabled_platforms = {"bandcamp"}
  /\ pc = "idle"

\* C27: every result of a client's search() has one of two shapes: a success
\* with error null and url a non-empty string, or a failure with url null,
\* confidence 0.0 and error a non-null string.
C27_SuccessOrFailureShape ==
  Called =>
    \/ Out.error = None /\ Out.url # None /\ Out.url # <<>>
    \/ FailureRecord(Out)

\* C28: in every search_track result, a non-null best_match.platform is a
\* key of platforms whose entry has a non-null url and the confidence of
\* best_match; best_match.platform is null exactly when best_match.confidence
\* is 0.0.
C28_BestMatchIsAnEntry ==
  Returned =>
    /\ BestMatch.platform # NoPlatform =>
         \E k \in 1..Len(Platforms) :
           /\ Platforms[k].platform = BestMatch.platform
           /\ Platforms[k].result.url # None
           /\ Platforms[k].result.confidence = BestMatch.confidence
    /\ BestMatch.platform = NoPlatform <=> BestMatch.confidence = 0

\* bandcamp is the best match of a call in which discogs returned a url with
\* confidence 0.0
C28_Witness ==
  /\ Returned
  /\ BestMatch.platform = "bandcamp"
  /\ \E k \in 1..Len(Platforms) :
       /\ Platforms[k].platform = "discogs"
       /\ Truthy(Platforms[k].result.url)
       /\ Platforms[k].result.confidence = 0

(***************************************************************************)
(* The scorers as functions (SpecScore): one query, two candidates, and    *)
(* the confidence _calculate_confidence gives each of them.                *)
(***************************************************************************)
MaxTitleLen == 3

TitleChars == {"a", "A", "b", "c", " "}

\* the titles a candidate may carry
ScoreTitles == SeqsUpTo(TitleChars, MaxTitleLen)

\* the artists a candidate may carry; a Catalog record has no artist field
ScoreArtists(platform) ==
  IF platform = "bandcamp" THEN {<<>>, <<"c">>, <<"b", " ", "a">>} ELSE {<<>>}

ScoreCandidates(platform) == [title : ScoreTitles, artist : ScoreArtists(platform)]

\* the candidates every other candidate is compared with
ReferenceCandidates(platform) ==
  [title : {<<"a", " ", "b">>, <<"b", " ", "a">>, <<"a", " ", "c">>, QueryAB},
   artist : ScoreArtists(platform) \ {<<"b", " ", "a">>}]

ScoreQueries ==
  {<<>>, <<"a">>, <<"a", " ", "b">>, <<"A", " ", "B">>, <<"b", " ", "c">>, QueryAB}

\* crawler._calculate_confidence(original_query, result) of the two scorers
CalculateConfidence(platform, original_query, result) ==
  IF platform = "discogs"
  THEN DiscogsConfidence(original_query, result.title)
  ELSE BandcampConfidence(original_query, result.title, result.artist)

InitScore ==
  /\ InitManager
  /\ input \in {<<[platform |-> x[1], query |-> x[2], first |-> x[3], second |-> x[4]]>> :
                  x \in UNION {{p} \X ScoreQueries \X ScoreCandidates(p)
                                 \X ReferenceCandidates(p) : p \in {"discogs", "bandcamp"}}}
  /\ call = <<>>

\* both candidates are scored against the query
Score ==
  /\ input # <<>>
  /\ call = <<>>
  /\ call' = <<[first |-> CalculateConfidence(input[1].platform, input[1].query, input[1].first),
                second |-> CalculateConfidence(input[1].platform, input[1].query, input[1].second)]>>
  /\ UNCHANGED <<managerVars, input>>

NextScore == Score

SpecScore == InitScore /\ [][NextScore]_vars

(***************************************************************************)
(* Properties of the scorers (checked under SpecScore)                     *)
(***************************************************************************)
Scored == input # <<>> /\ call # <<>>

\* the two scored candidates, each with its confidence
ScoredPairs == {<<input[1].first, call[1].first>>, <<input[1].second, call[1].second>>}

\* q and the candidate's title, lower-cased, and whether one contains the other
TitleContainment(result) ==
  \/ Contains(Lower(result.title), Lower(input[1].query))
  \/ Contains(Lower(input[1].query), Lower(result.title))

\* the same for the artist, which only the Storefront scorer looks at
ArtistContainment(result) ==
  /\ input[1].platform = "bandcamp"
  /\ \/ Contains(Lower(result.artist), Lower(input[1].query))
     \/ Contains(Lower(input[1].query), Lower(result.artist))

\* Q, the lower-cased word set of the query, and R, that of the candidate
QueryWordSet == Words(Lower(input[1].query))
ResultWordSet(result) ==
  IF input[1].platform = "bandcamp"
  THEN Words(Lower(result.title)) \cup Words(Lower(result.artist))
  ELSE Words(Lower(result.title))

ExactTitle(result) == Lower(result.title) = Lower(input[1].query)

\* shares words with q, but neither title nor query contains the other
PartialOverlapOnly(result) ==
  /\ ~ TitleContainment(result)
  /\ QueryWordSet \cap ResultWordSet(result) # {}

\* C12: for the Catalog and Storefront scorers, a candidate whose title equals
\* the query case-insensitively scores at least as much as any candidate that
\* only shares words with the query, neither containing the other.
C12_ExactTitleBeatsPartialOverlap ==
  Scored =>
    \A x \in ScoredPairs : \A y \in ScoredPairs :
      (ExactTitle(x[1]) /\ PartialOverlapOnly(y[1])) => x[2] >= y[2]

\* an exact title at 0.9 next to a rival that the artist field lifts to 0.8
C12_Witness ==
  /\ Scored
  /\ ExactTitle(input[1].first) /\ call[1].first = Conf(9)
  /\ PartialOverlapOnly(input[1].second) /\ call[1].second = Conf(8)


\* neither containment test of the scorer succeeds for the candidate
NoContainment(result) == ~ TitleContainment(result) /\ ~ ArtistContainment(result)

\* C17: when a candidate exists, no containment rule applies and the word
\* sets of query and candidate have no word in common, the scorer returns the
\* flat default 0.5.
C17_NoCommonWordGivesDefault ==
  Scored =>
    \A x \in ScoredPairs :
      (NoContainment(x[1]) /\ QueryWordSet \cap ResultWordSet(x[1]) = {}) => x[2] = Conf(5)

\* the ceiling of the platform's overlap score
Ceiling == IF input[1].platform = "discogs" THEN Conf(8) ELSE Conf(7)

\* C18: when no containment rule applies and both word sets are non-empty,
\* the scorer returns min(ceiling, |Q \cap R| / |Q \cup R|), Q the query's
\* lower-cased words, R the candidate's (title words for the Catalog, title
\* and artist words for the Storefront), the ceiling 0.8 and 0.7.
C18_OverlapScoreIsCappedJaccard ==
  Scored =>
    \A x \in ScoredPairs :
      LET Q == QueryWordSet
          R == ResultWordSet(x[1])
      IN (NoContainment(x[1]) /\ Q # {} /\ R # {}) =>
           \/ /\ Cardinality(Q \cap R) * One <= Ceiling * Cardinality(Q \cup R)
              /\ x[2] * Cardinality(Q \cup R) = Cardinality(Q \cap R) * One
           \/ /\ Cardinality(Q \cap R) * One > Ceiling * Cardinality(Q \cup R)
              /\ x[2] = Ceiling

\* a Storefront candidate held at the ceiling next to one that scores 2/3
\* through a word of its artist
C18_Witness ==
  /\ Scored
  /\ input[1].platform = "bandcamp"
  /\ NoContainment(input[1].first) /\ call[1].first = Conf(7)
  /\ NoContainment(input[1].second) /\ 3 * call[1].second = 2 * One
  /\ Words(Lower(input[1].second.artist)) \ QueryWordSet # {}

\* the candidate has an empty title, or for the Storefront an empty artist
EmptyField(result) ==
  result.title = <<>> \/ (input[1].platform = "bandcamp" /\ result.artist = <<>>)

\* C29: the containment scores are given only for a match on a non-empty
\* field: 0.9 only when the candidate's non-empty title contains or is
\* contained in the query, the Storefront's 0.8 only when its non-empty
\* artist is; a candidate with an empty title or artist is scored by word
\* overlap or by the 0.5 default.
C29_ContainmentNeedsNonEmptyField ==
  Scored =>
    \A x \in ScoredPairs :
      /\ x[2] = Conf(9) => (x[1].title # <<>> /\ TitleContainment(x[1]))
      /\ (input[1].platform = "bandcamp" /\ x[2] = Conf(8)) =>
           (x[1].artist # <<>> /\ ArtistContainment(x[1]))
      /\ EmptyField(x[1]) => x[2] = OverlapScore(QueryWordSet, ResultWordSet(x[1]), Ceiling)

(***************************************************************************)
(* The extractors as functions (SpecExtract): a page, and the candidates   *)
(* _extract_video_urls or _extract_search_results finds in it.             *)
(***************************************************************************)
\* a page of "videoRenderer" objects with these ids, in this order
Renderers(ids) == [k \in 1..Len(ids) |-> [ctx |-> "videoRenderer", id |-> ids[k]]]

ThreeVideos == Renderers(<<"id1", "id2", "id3">>)
SevenVideos == Renderers(<<"id1", "id1", "id2", "id3", "id4", "id5", "id6">>)

\* six watch endpoints after one compact renderer
EndpointsAfterCompact ==
  <<[ctx |-> "compactVideoRenderer", id |-> "id9"]>>
    \o [k \in 1..6 |-> [ctx |-> "watchEndpoint", id |-> <<"id6", "id5", "id4", "id3", "id2", "id1">>[k]]]

TagPage == <<"https:", "/", "/", "x", ".bandcamp.com", "/", "tag", "/", "a">>
LabelPage == <<"https:", "/", "/", "x", ".bandcamp.com", "/", "label", "/", "a">>
FanPage == <<"/", "fan", "/", "a">>

\* the items of a Storefront page: those of the searches, and links to tag,
\* label and fan pages
PageItems ==
  BandcampItems \cup
    {Item("result", TagPage, <<"a">>, <<"b">>),
     Item("aresult", FanPage, <<"a">>, <<"b">>),
     Item("link", TagPage, <<>>, <<>>),
     Item("link", LabelPage, <<>>, <<>>)}

\* six results, the third of a label page
SixResults ==
  [k \in 1..6 |-> Item("result",
                       IF k = 3 THEN LabelPage ELSE <<"/", "album", "/", <<"a", "b", "c", "d", "e", "f">>[k]>>,
                       <<"a">>, <<"b">>)]

ExtractBodies(platform) ==
  IF platform = "youtube"
  THEN SeqsUpTo(VideoItems, MaxItems) \cup {ThreeVideos, SevenVideos, EndpointsAfterCompact}
  ELSE SeqsUpTo(PageItems, MaxItems) \cup {SixResults}

\* the extractor of a crawler
ExtractCandidates(platform, body) ==
  IF platform = "youtube" THEN ExtractVideoUrls(body) ELSE ExtractSearchResults(body)

InitExtract ==
  /\ InitManager
  /\ input \in {<<[platform |-> x[1], body |-> x[2]]>> :
                  x \in UNION {{p} \X ExtractBodies(p) : p \in {"youtube", "bandcamp"}}}
  /\ call = <<>>

\* the extractor is run on the page
Extract ==
  /\ input # <<>>
  /\ call = <<>>
  /\ call' = <<ExtractCandidates(input[1].platform, input[1].body)>>
  /\ UNCHANGED <<managerVars, input>>

NextExtract == Extract

SpecExtract == InitExtract /\ [][NextExtract]_vars

(***************************************************************************)
(* Properties of the extractors (checked under SpecExtract)                *)
(***************************************************************************)
Extracted == input # <<>> /\ call # <<>>

\* the matches of the pattern in use: the first pattern that matches at all
MatchedIds ==
  LET using == {n \in 1..Len(VideoPatterns) : FindAllIds(VideoPatterns[n], input[1].body) # <<>>}
  IN IF using = {} THEN <<>>
     ELSE FindAllIds(VideoPatterns[CHOOSE n \in using : \A m \in using : n <= m], input[1].body)

\* where an id first appears among the matches
FirstAt(id) ==
  CHOOSE k \in 1..Len(MatchedIds) :
    MatchedIds[k] = id /\ \A j \in 1..(k - 1) : MatchedIds[j] # id

WatchUrl(id) == <<"https://www.youtube.com/watch?v=", id>>

\* C14: the Video-site extractor returns watch URLs, no id twice, in the order
\* the ids first appear in the body, min(5, number of distinct ids matched by
\* the pattern in use) of them; three distinct ids in videoRenderer fields
\* give exactly those three URLs in that order.
C14_DistinctIdsInOrderOfAppearance ==
  (Extracted /\ input[1].platform = "youtube") =>
    LET urls == call[1]
        distinct == {MatchedIds[k] : k \in 1..Len(MatchedIds)}
        returned == {urls[k][2] : k \in 1..Len(urls)}
    IN /\ Len(urls) = Min(5, Cardinality(distinct))
       /\ \A k \in 1..Len(urls) : urls[k][2] \in distinct /\ urls[k] = WatchUrl(urls[k][2])
       /\ \A i \in 1..Len(urls) : \A j \in (i + 1)..Len(urls) :
            urls[i][2] # urls[j][2] /\ FirstAt(urls[i][2]) < FirstAt(urls[j][2])
       /\ \A id \in distinct \ returned : \A k \in 1..Len(urls) :
            FirstAt(urls[k][2]) < FirstAt(id)
       /\ (input[1].body = ThreeVideos =>
             urls = <<WatchUrl("id1"), WatchUrl("id2"), WatchUrl("id3")>>)

\* six distinct ids, one of them twice among the first five matches
C14_Witness ==
  /\ Extracted
  /\ input[1].body = SevenVideos
  /\ call[1] = <<WatchUrl("id1"), WatchUrl("id2"), WatchUrl("id3"),
                 WatchUrl("id4"), WatchUrl("id5")>>


\* the URL names a tag, label or fan page
NonMusicUrl(url) ==
  \E marker \in {"tag", "label", "fan"} : Contains(url, <<"/", marker, "/">>)

\* C19: no candidate the Storefront extractor returns, by the structural
\* strategy or by the fallback, has a URL containing '/tag/', '/label/' or
\* '/fan/'.
C19_NoNonMusicCandidate ==
  (Extracted /\ input[1].platform = "bandcamp") =>
    \A k \in 1..Len(call[1]) : ~ NonMusicUrl(call[1][k].url)


\* the patterns that match somewhere in the page
PatternsMatching ==
  {n \in 1..Len(VideoPatterns) : FindAllIds(VideoPatterns[n], input[1].body) # <<>>}

\* C21: the Video-site extractor tries its four patterns in order and stops
\* at the first one that matches: every id returned was matched by that one
\* pattern, a later pattern contributes only if all earlier ones matched
\* nothing, and nothing is returned only if no pattern matches.
C21_OnlyFirstMatchingPattern ==
  (Extracted /\ input[1].platform = "youtube") =>
    LET returned == {call[1][k][2] : k \in 1..Len(call[1])}
    IN /\ PatternsMatching = {} <=> call[1] = <<>>
       /\ \A n \in PatternsMatching :
            (\A m \in PatternsMatching : n <= m) =>
              \A id \in returned :
                \E k \in 1..Len(input[1].body) :
                  /\ input[1].body[k].id = id
                  /\ (VideoPatterns[n] = "videoId" \/ input[1].body[k].ctx = VideoPatterns[n])

\* a compact renderer comes before six watch endpoints: only its id is returned
C21_Witness ==
  /\ Extracted
  /\ input[1].body = EndpointsAfterCompact
  /\ call[1] = <<WatchUrl("id9")>>


(***************************************************************************)
(* clean_query as a function (SpecClean): a query, what clean_query makes  *)
(* of it, and what clean_query makes of that.                              *)
(***************************************************************************)
\* the characters of the generated queries
CleanChars == {"a", " ", "\t", "!", "'", "(", ")"}

CleanInputs ==
  SeqsUpTo(CleanChars, MaxQueryLen)
    \cup {QueryAB, QueryBang, QueryMix, QueryRemix, QueryApos, QueryX}

\* crawler.clean_query(query) of the platform's crawler
CleanQueryOf(platform, query) ==
  CASE platform = "youtube" -> YouTubeCleanQuery(query)
    [] platform = "discogs" -> DiscogsCleanQuery(query)
    [] platform = "bandcamp" -> BandcampCleanQuery(query)

InitClean ==
  /\ InitManager
  /\ input \in {<<[platform |-> p, query |-> q]>> : <<p, q>> \in Crawlers \X CleanInputs}
  /\ call = <<>>

\* clean_query is applied to the query, and again to its own output
Clean ==
  /\ input # <<>>
  /\ call = <<>>
  /\ call' = <<[once |-> CleanQueryOf(input[1].platform, input[1].query),
                twice |-> CleanQueryOf(input[1].platform,
                                       CleanQueryOf(input[1].platform, input[1].query))]>>
  /\ UNCHANGED <<managerVars, input>>

NextClean == Clean

SpecClean == InitClean /\ [][NextClean]_vars

(***************************************************************************)
(* Properties of clean_query (checked under SpecClean)                     *)
(***************************************************************************)
Cleaned == input # <<>> /\ call # <<>>

\* the characters the client's allow-list lets through
AllowListed(platform) ==
  WordChars \cup SpaceChars \cup KeptPunct
    \cup (IF platform = "discogs" THEN {} ELSE {"'"})

\* C22: for every client and every input, the output of clean_query holds
\* only allow-listed characters, has no leading or trailing whitespace and no
\* run of two or more whitespace characters, and clean_query leaves it
\* unchanged.
C22_CleanQueryIsNormalForm ==
  Cleaned =>
    LET out == call[1].once
    IN /\ \A k \in 1..Len(out) : out[k] \in AllowListed(input[1].platform)
       /\ out # <<>> => (out[1] \notin SpaceChars /\ out[Len(out)] \notin SpaceChars)
       /\ \A k \in 1..(Len(out) - 1) : ~ (out[k] \in SpaceChars /\ out[k + 1] \in SpaceChars)
       /\ call[1].twice = out


(***************************************************************************)
(* process_tracklists (SpecProcess): a fresh manager, discogs disabled on  *)
(* request, then one search_track call per track of the tracklists.        *)
(***************************************************************************)
\* manager = SearchManager(discogs_token=discogs_token), for either value of
\* the enable_discogs argument
InitProcess ==
  /\ InitManager
  /\ input \in {<<[enable_discogs |-> b]>> : b \in BOOLEAN}
  /\ call = <<>>

\* the "if not enable_discogs" statement has been passed
Configured == input[1].enable_discogs \/ lastOp["discogs"] = "disable"

\* if not enable_discogs: manager.disable_platform('discogs')
ProcessDisableDiscogs ==
  /\ input # <<>>
  /\ ~ Configured
  /\ DisablePlatform("discogs")

\* search_result = manager.search_track(track_name), for the next track
ProcessSearchTrack(t, o) ==
  /\ input # <<>>
  /\ Configured
  /\ SearchTrackBegin(t, o)

NextProcess ==
  \/ ProcessDisableDiscogs
  \/ \E t \in Tracks : \E o \in Orders(enabled_platforms) : ProcessSearchTrack(t, o)
  \/ \E resp \in UNION {ManagerResponses(p) : p \in Crawlers} : LoopIteration(resp)
  \/ SearchTrackReturn

SpecProcess == InitProcess /\ [][NextProcess]_vars

\* C24: when process_tracklists is called with enable_discogs=False, only
\* YouTube is searched: the platforms mapping of every search_track result
\* has 'youtube' as its only key.
C24_OnlyYouTubeWithoutDiscogs ==
  (input # <<>> /\ ~ input[1].enable_discogs /\ Returned) =>
    Keys(Platforms) = {"youtube"}


(***************************************************************************)
(* The legacy TrackSearchManager beside SearchManager (SpecLegacy): the    *)
(* SearchManager, with bandcamp disabled, lives in the manager variables,  *)
(* the TrackSearchManager in call; every call is made on both, and a       *)
(* search_track call gives both the same response of each platform.        *)
(***************************************************************************)
\* the keys of TrackSearchManager.searchers
Searchers == {"youtube", "discogs"}

\* the responses of a platform during the side-by-side run: those of the
\* manager, and a Discogs record that ties with YouTube's 0.8
LegacyResponses(platform) ==
  IF platform = "discogs"
  THEN ManagerResponses(platform) \cup {Answer(200, <<Record(<<"b", " ", "a">>, ReleaseUri)>>)}
  ELSE ManagerResponses(platform)

\* the for loop of search_track from position k of the order o on, over the
\* given registry (self.crawlers or self.searchers): the dict it fills and
\* the searches and waits it makes
RECURSIVE SearchLoop(_, _, _, _, _, _)
SearchLoop(registry, o, k, t, resps, acc) ==
  IF k > Len(o) THEN acc
  ELSE IF o[k] \in registry
       THEN SearchLoop(registry, o, k + 1, t, resps,
              [results |-> DictSet(acc.results, o[k], CrawlerSearch(o[k], t, resps[o[k]]).result),
               events |-> acc.events \o IterationEvents(o[k], o)])
       ELSE SearchLoop(registry, o, k + 1, t, resps, acc)

\* the value search_track returns for the dict it has filled
SearchTrackValue(t, platform_results) ==
  [track |-> t, platforms |-> platform_results, best_match |-> FindBestMatch(platform_results)]

\* TrackSearchManager(), beside SearchManager() after disable_platform('bandcamp')
InitLegacy ==
  /\ enabled_platforms = Crawlers \ {"bandcamp"}
  /\ lastOp = [p \in Crawlers |-> IF p = "bandcamp" THEN "disable" ELSE "none"]
  /\ pc = "idle"
  /\ track = <<>>
  /\ order = <<>>
  /\ idx = 0
  /\ results = <<>>
  /\ events = <<>>
  /\ ret = <<>>
  /\ input = <<>>
  /\ call = <<[enabled_platforms |-> Searchers, events |-> <<>>, ret |-> <<>>]>>

\* enable_platform(platform) on both managers
BothEnablePlatform(platform) ==
  /\ enabled_platforms' =
       IF platform \in Crawlers THEN enabled_platforms \cup {platform}
       ELSE enabled_platforms
  /\ call' = <<[enabled_platforms |->
                  IF platform \in Searchers THEN call[1].enabled_platforms \cup {platform}
                  ELSE call[1].enabled_platforms,
                events |-> <<>>, ret |-> <<>>]>>
  /\ lastOp' = Named(platform, "enable")
  /\ events' = <<>>
  /\ ret' = <<>>
  /\ input' = <<>>
  /\ UNCHANGED <<pc, track, order, idx, results>>

\* disable_platform(platform) on both managers
BothDisablePlatform(platform) ==
  /\ enabled_platforms' = enabled_platforms \ {platform}
  /\ call' = <<[enabled_platforms |-> call[1].enabled_platforms \ {platform},
                events |-> <<>>, ret |-> <<>>]>>
  /\ lastOp' = Named(platform, "disable")
  /\ events' = <<>>
  /\ ret' = <<>>
  /\ input' = <<>>
  /\ UNCHANGED <<pc, track, order, idx, results>>

\* search_track(t) on both managers, from entry to return: o and lo are the
\* orders in which the two for loops iterate their sets, resps the response
\* of each platform
BothSearchTrack(t, o, lo, resps) ==
  /\ o \in Orders(enabled_platforms)
  /\ lo \in Orders(call[1].enabled_platforms)
  /\ LET run == SearchLoop(Crawlers, o, 1, t, resps, [results |-> <<>>, events |-> <<>>])
         legacy == SearchLoop(Searchers, lo, 1, t, resps, [results |-> <<>>, events |-> <<>>])
     IN /\ events' = run.events
        /\ ret' = <<SearchTrackValue(t, run.results)>>
        /\ call' = <<[enabled_platforms |-> call[1].enabled_platforms,
                      events |-> legacy.events,
                      ret |-> <<SearchTrackValue(t, legacy.results)>>]>>
  /\ track' = t
  /\ input' = <<[track |-> t, responses |-> resps, order |-> o, legacy_order |-> lo]>>
  /\ UNCHANGED <<enabled_platforms, lastOp, pc, order, idx, results>>

NextLegacy ==
  \/ \E platform \in Searchers : BothEnablePlatform(platform)
  \/ \E platform \in Searchers : BothDisablePlatform(platform)
  \/ \E t \in Tracks : \E o \in Orders(enabled_platforms) :
       \E lo \in Orders(call[1].enabled_platforms) :
         \E resps \in [Searchers -> UNION {LegacyResponses(p) : p \in Searchers}] :
           /\ \A p \in Searchers : resps[p] \in LegacyResponses(p)
           /\ BothSearchTrack(t, o, lo, resps)

SpecLegacy == InitLegacy /\ [][NextLegacy]_vars

\* both managers have returned from the same search_track call
BothReturned == ret # <<>> /\ call # <<>> /\ call[1].ret # <<>>

\* the items of a dict kept as a sequence
Items(d) == {d[k] : k \in 1..Len(d)}

\* when the two for loops iterate in the same order, the two calls return the
\* same value and make the same searches and waits
SameOrderSameOutcome ==
  (BothReturned /\ input[1].order = input[1].legacy_order) =>
    (ret = call[1].ret /\ events = call[1].events)

\* the two managers differ in nothing but the order of iteration: their
\* enabled sets agree, and so do the platforms mappings they return
SameSetsSameMappings ==
  /\ enabled_platforms = call[1].enabled_platforms
  /\ BothReturned => Items(ret[1].platforms) = Items(call[1].ret[1].platforms)

\* C30: the legacy TrackSearchManager and SearchManager with 'bandcamp'
\* disabled are equivalent: after the same enable/disable calls on youtube
\* and discogs and with the same response of each platform, every
\* search_track call returns the same platforms mapping and the same
\* best_match and makes the same sequence of searches and waits.
C30_LegacyManagerIsEquivalent ==
  BothReturned =>
    /\ Items(ret[1].platforms) = Items(call[1].ret[1].platforms)
    /\ ret[1].best_match = call[1].ret[1].best_match
    /\ events = call[1].events


====
